---- MODULE Spec2Model ----
(***************************************************************************)
(* Model of the crawl orchestrator of job-networker: the start/cancel      *)
(* route (POST, startCrawlProcess, DELETE), the session routes, the        *)
(* LinkedInCrawler crawl functions and the DatabaseManager rows they       *)
(* write.  One action is one run of JavaScript between two suspension      *)
(* points (a request handler up to its first real await, or the            *)
(* continuation of an await up to the next one).                           *)
(***************************************************************************)
EXTENDS Integers, Sequences, FiniteSets, TLC

(* ---------------- bounds of the model ---------------- *)
MaxSessions == 1
MaxStarts == 2
MaxLive == 2
MaxCompanies == 2
MaxDirect == 2
LargeDirect == 55
LargeCap == 60
SmallCap == 1
MaxStoreSessions == 2
MaxCalls == 5
MaxOpens == 3

(* ---------------- program constants ---------------- *)
DefaultMaxConnections == 50
ProgressDivisorCap == 50
CompanyPageLimit == 5
(* the length of possibleSelectors in extractCompaniesFromSearch *)
NumSelectors == 15

Null == "<null>"
NoProc == 0
Procs == 1..MaxLive
Modes == {"first_connections", "friends_of_friends"}

VARIABLES
  store,           \* the SQLite tables of DatabaseManager
  activeCrawlers,  \* Map<sessionId, LinkedInCrawler> of the start route
  crawlers,        \* per crawler: its fields browser, page, settings and the chromium process
  procs,           \* per startCrawlProcess call: where it is suspended and its locals
  requests,        \* cancel handlers suspended in `await crawler.close()`
  obs,             \* history of each run: progress values written, terminal write, item failures
  env,             \* what the site serves and how many requests the user still issues
  file             \* the database file: its tables, columns and indexes, and the opening of it

vars == <<store, activeCrawlers, crawlers, procs, requests, obs, env, file>>

(* The whole state as one record, so that the code's functions can be      *)
(* written as functions from state to state and composed.                  *)
(* self is the startCrawlProcess call whose code is running (NoProc in a   *)
(* request handler)                                                        *)
World(self) ==
  [store |-> store, activeCrawlers |-> activeCrawlers, crawlers |-> crawlers,
   procs |-> procs, requests |-> requests, obs |-> obs, env |-> env, self |-> self]

Become(w) ==
  /\ store' = w.store
  /\ activeCrawlers' = w.activeCrawlers
  /\ crawlers' = w.crawlers
  /\ procs' = w.procs
  /\ requests' = w.requests
  /\ obs' = w.obs
  /\ env' = w.env
  /\ file' = file

Min(a, b) == IF a < b THEN a ELSE b
Max(a, b) == IF a > b THEN a ELSE b

(* Math.round of the rational num/den (den > 0, num >= 0): halves go up. *)
MathRound(num, den) == (2 * num + den) \div (2 * den)

(* ---------------- texts ---------------- *)
(* A text is the sequence of its words (the text split at white space); *)
(* the regular expressions of the code are evaluated on the words.      *)
RECURSIVE Join(_)
Join(words) ==
  IF words = << >> THEN ""
  ELSE IF Len(words) = 1 THEN words[1]
  ELSE words[1] \o " " \o Join(Tail(words))

Numbers == {"0", "1", "2", "3"}
IsNumber(word) == word \in Numbers
parseInt(word) ==
  CASE word = "0" -> 0 [] word = "1" -> 1 [] word = "2" -> 2 [] word = "3" -> 3

(* toLowerCase, and the /i flag, on the words used here *)
toLowerCase(word) ==
  CASE word = "Connections" -> "connections"
    [] word = "Alumni" -> "alumni"
    [] word = "Jane" -> "jane"
    [] word = "Doe" -> "doe"
    [] OTHER -> word

(* [A-Z][a-z]+ *)
IsCapitalized(word) ==
  word \in {"Connections", "Alumni", "Jane", "Doe", "Ann", "Lee", "Carl", "Roe", "View", "Status"}
(* [A-Z][a-z]+ under the /i flag: any word of letters *)
IsLetters(word) == ~IsNumber(word)

(* ---------------- what the site serves ---------------- *)
PeopleSearchUrl == "https://www.linkedin.com/search/results/people/?acme"

SummaryCard ==
  [name |-> "Acme", linkedinUrl |-> "https://www.linkedin.com/company/acme",
   connectionInfo |-> <<"2", "connections", "work", "here">>,
   connectionNames |-> << [name |-> "2 connections work here",
                           profileUrl |-> PeopleSearchUrl,
                           isConnectionSummary |-> TRUE] >>]

NamedCard ==
  [name |-> "Beta", linkedinUrl |-> "https://www.linkedin.com/company/beta",
   connectionInfo |-> <<"Jane", "Doe", "works", "here">>,
   connectionNames |-> << [name |-> "Jane Doe", profileUrl |-> "",
                           isConnectionSummary |-> FALSE] >>]

CountCard ==
  [name |-> "Gamma", linkedinUrl |-> "https://www.linkedin.com/company/gamma",
   connectionInfo |-> <<"3", "connections", "work", "here">>,
   connectionNames |-> << >>]

Cards == {SummaryCard, NamedCard, CountCard}

(* the words from place i on are, ignoring case, drawn from the given sets in turn *)
WordsAt(info, i, sets) ==
  /\ i >= 1
  /\ i + Len(sets) - 1 <= Len(info)
  /\ \A j \in 1..Len(sets) : toLowerCase(info[i + j - 1]) \in sets[j]

(* the places where one of the namePatterns of extractCompaniesFromSearch *)
(* finds two words of letters: the first three patterns at the start of  *)
(* the text, the fourth at its first match anywhere                      *)
NameMatches(info) ==
  LET twoWords(i) == i + 1 <= Len(info) /\ IsLetters(info[i]) /\ IsLetters(info[i + 1])
      others(i) == WordsAt(info, i, <<{"and"}, Numbers, {"other", "others"}>>)
      worksHere(i) == WordsAt(info, i, <<{"work", "works"}, {"here"}>>)
      hiredHere(i) == WordsAt(info, i, <<{"were"}, {"hired"}, {"here"}>>)
      anywhere == {i \in 1..Len(info) :
                     twoWords(i) /\ WordsAt(info, i + 2, <<{"and", "works", "were", "from"}>>)}
  IN << IF twoWords(1) /\ (worksHere(3) \/ (others(3) /\ worksHere(6))) THEN {1} ELSE {},
        IF twoWords(1) /\ (hiredHere(3) \/ (others(3) /\ hiredHere(6))) THEN {1} ELSE {},
        IF twoWords(1) /\ WordsAt(info, 3, <<{"from"}, {"your"}>>) THEN {1} ELSE {},
        IF anywhere = {} THEN {}
        ELSE {CHOOSE i \in anywhere : \A j \in anywhere : i <= j} >>

(* the name taken from the connection text of a card without summary links *)
namesFromInfo(info) ==
  LET generic(i) ==
        \E j \in {i, i + 1} :
          toLowerCase(info[j]) \in {"connection", "connections", "company", "people"}
      hits == {k \in 1..4 : \E i \in NameMatches(info)[k] : ~generic(i)}
  IN IF hits = {} THEN << >>
     ELSE LET k == CHOOSE k \in hits : \A l \in hits : k <= l
              i == CHOOSE i \in NameMatches(info)[k] : TRUE
          IN << [name |-> info[i] \o " " \o info[i + 1], profileUrl |-> "",
                 isConnectionSummary |-> FALSE] >>

(* connection texts a card can show: each is empty or passes the filter of *)
(* extractCompaniesFromSearch for connection texts                         *)
InfoTexts ==
  { << >>,
    <<"1", "connection", "works", "here">>,
    <<"2", "connections", "work", "here">>,
    <<"3", "people", "were", "hired", "here">>,
    <<"3", "Connections", "work", "here">>,
    <<"people", "you", "may", "know">>,
    <<"connections", "from", "your", "school">>,
    <<"Jane", "Doe", "hired", "here">>,
    <<"Alumni", "work", "here", "with", "people">>,
    <<"Jane", "Doe", "and", "2", "others", "work", "here">>,
    <<"3", "people", "from", "your", "school", "were", "hired", "here">> }

TextCard(info) ==
  [name |-> "Delta", linkedinUrl |-> "https://www.linkedin.com/company/delta",
   connectionInfo |-> info, connectionNames |-> namesFromInfo(info)]

AnnLee == [name |-> "Ann Lee", profileUrl |-> "https://www.linkedin.com/in/ann-lee",
           isConnectionSummary |-> FALSE]
CarlRoe == [name |-> "Carl Roe", profileUrl |-> "https://www.linkedin.com/in/carl-roe",
            isConnectionSummary |-> FALSE]

Thrown == [kind |-> "thrown", page |-> << >>, people |-> << >>]
NoPage == [kind |-> "no_page", page |-> << >>, people |-> << >>]

(* ---------------- extractIndividualConnections ---------------- *)
(* A person-search page is the sequence of its result cards, a card the *)
(* sequence of its profile links (a[href*="/in/"]), a link its href,    *)
(* the text under each of the seven nameSelectors in order (<< >> when  *)
(* the selector finds nothing in the link) and its own text.            *)
NumNameSelectors == 7

Link(href, texts, linkText) ==
  [href |-> href,
   texts |-> [k \in 1..NumNameSelectors |-> IF k <= Len(texts) THEN texts[k] ELSE << >>],
   linkText |-> linkText]

AnnLink == Link(AnnLee.profileUrl, << <<"Ann", "Lee">> >>, <<"Ann", "Lee">>)
CarlLink == Link(CarlRoe.profileUrl, << << >>, << >>, <<"Carl", "Roe">> >>, <<"Carl", "Roe">>)
(* the first selector finds the name together with a screen-reader text, *)
(* the second the name alone                                             *)
AnnLabelledLink ==
  Link(AnnLee.profileUrl, << <<"Ann", "Lee", "View", "profile">>, <<"Ann", "Lee">> >>,
       <<"Ann", "Lee", "View", "profile">>)
(* a link around the picture: no name in it *)
PictureLink == Link(CarlRoe.profileUrl, << >>, <<"View", "profile">>)
StatusLink == Link(CarlRoe.profileUrl, << <<"Status", "is", "online">> >>, <<"Carl", "Roe">>)

(* /^[A-Z][a-z]+\s+[A-Z]/ and /^[A-Z][a-z]+\s+[A-Z][a-z]/ on the words used here *)
LooksLikeName(text) ==
  Len(text) >= 2 /\ IsCapitalized(text[1]) /\ IsCapitalized(text[2])

(* nameText.toLowerCase().includes(...) for the words filtered out *)
HasStopWord(text) ==
  \E i \in 1..Len(text) : text[i] \in {"View", "profile", "Status", "online"}

(* the validation of nameText: a capitalised first name followed by one *)
(* to three words that each start with a capital, none of the words     *)
(* filtered out, and href.includes('/in/'), which the selector of the   *)
(* links ensures; the texts used here have between 4 and 79 letters     *)
IsValidName(text) ==
  /\ Len(text) \in 2..4
  /\ \A i \in 1..Len(text) : IsCapitalized(text[i])
  /\ ~HasStopWord(text)

(* Strategy 1: the text of the first selector, from k on, that looks like *)
(* a name; Strategy 2: the text of the link itself                        *)
RECURSIVE nameTextFrom(_, _)
nameTextFrom(link, k) ==
  IF k > NumNameSelectors
  THEN IF LooksLikeName(link.linkText) THEN link.linkText ELSE << >>
  ELSE IF LooksLikeName(link.texts[k]) THEN link.texts[k]
  ELSE nameTextFrom(link, k + 1)

nameText(link) == nameTextFrom(link, 1)

(* the person of the first link of the card, from l on, whose nameText is *)
(* valid: "Only take the first valid profile link per card"               *)
RECURSIVE personOfCard(_, _)
personOfCard(card, l) ==
  IF l > Len(card) THEN << >>
  ELSE IF nameText(card[l]) # << >> /\ IsValidName(nameText(card[l]))
       THEN << [name |-> Join(nameText(card[l])), profileUrl |-> card[l].href,
                isConnectionSummary |-> FALSE] >>
       ELSE personOfCard(card, l + 1)

RECURSIVE extractIndividualConnections(_)
extractIndividualConnections(page) ==
  IF page = << >> THEN << >>
  ELSE personOfCard(Head(page), 1) \o extractIndividualConnections(Tail(page))

PeoplePages ==
  { << >>,
    << <<AnnLink>> >>,
    << <<AnnLabelledLink>> >>,
    << <<PictureLink, CarlLink>> >>,
    << <<AnnLink, CarlLink>> >>,
    << <<StatusLink>>, <<AnnLink>> >>,
    << <<AnnLink>>, <<CarlLink>> >> }

AcmeEmployer == [kind |-> "employer", name |-> "Acme",
                 linkedinUrl |-> "https://www.linkedin.com/company/acme"]
Employers == { AcmeEmployer, [kind |-> "employer", name |-> "Solo", linkedinUrl |-> ""] }
NoCompany == [kind |-> "no_company", name |-> "", linkedinUrl |-> ""]
ProfileThrown == [kind |-> "thrown", name |-> "", linkedinUrl |-> ""]
ProfileNoPage == [kind |-> "no_page", name |-> "", linkedinUrl |-> ""]

PersonName(i) == "Friend " \o ToString(i)
ProfileUrl(i) == "https://www.linkedin.com/in/friend-" \o ToString(i)

(* What the site serves depends on the environment e: a "rich" site    *)
(* (any short list of cards, a few direct connections), a "plain" one  *)
(* (at most one card or connection), a "restart" one (exactly one) and *)
(* a "large" one (many direct connections whose profiles show no       *)
(* employer).                                                          *)
(* an element that a selector matches without being a company card *)
Advert == [name |-> "", linkedinUrl |-> "", connectionInfo |-> << >>, connectionNames |-> << >>]

(* a document is, for each selector of possibleSelectors in order, the *)
(* elements it matches, each with what the strategies read from it     *)
Document(matches) ==
  [k \in 1..NumSelectors |->
     IF \E m \in matches : m[1] = k THEN (CHOOSE m \in matches : m[1] = k)[2] ELSE << >>]
NoDocument == << >>

(* documents in which several selectors match *)
CascadeDocuments ==
  { Document({}),
    Document({<<7, <<NamedCard>>>>}),
    Document({<<7, <<NamedCard>>>>, <<9, <<NamedCard, CountCard>>>>}),
    Document({<<2, <<CountCard>>>>, <<15, <<CountCard>>>>}),
    Document({<<4, <<Advert, NamedCard>>>>, <<11, <<CountCard, NamedCard>>>>}),
    Document({<<15, <<Advert>>>>}) }

CompanyLists(e) ==
  IF e.site = "rich" THEN UNION { [1..k -> Cards] : k \in 0..MaxCompanies }
  ELSE IF e.site = "texts" THEN { <<TextCard(info)>> : info \in InfoTexts }
  ELSE IF e.site = "restart" THEN { <<SummaryCard>> }
  ELSE { << >>, <<SummaryCard>> }
DirectCounts(e) ==
  IF e.site = "large" THEN {LargeDirect}
  ELSE IF e.site = "rich" THEN 0..MaxDirect
  ELSE IF e.site = "people" THEN {MaxDirect}
  ELSE IF e.site = "restart" THEN {1} ELSE 0..1
ProfileResults(e) ==
  IF e.site = "large" THEN {NoCompany}
  ELSE IF e.site = "rich" THEN {NoCompany} \cup Employers
  ELSE IF e.site = "people"
       THEN { [kind |-> "employer", name |-> "Solo", linkedinUrl |-> ""],
              [kind |-> "employer", name |-> "Duo", linkedinUrl |-> ""] }
  ELSE {AcmeEmployer}
(* the search pages: the cards under the first selector, or several *)
(* selectors matching                                               *)
Documents(e) ==
  IF e.site = "cascade" THEN CascadeDocuments
  ELSE { Document({<<1, list>>}) : list \in CompanyLists(e) }
(* person-search results a summary link can resolve to *)
SearchPages(e) ==
  IF e.site = "people" THEN PeoplePages
  ELSE IF e.site = "rich" THEN { << >>, << <<AnnLink>> >> }
  ELSE { << <<AnnLink>> >> }
ResolveResults(e) ==
  { [kind |-> "found", page |-> page, people |-> extractIndividualConnections(page)] :
      page \in SearchPages(e) }
(* profile links a company page can show *)
CompanyPageResults(e) ==
  IF e.site \in {"rich", "texts"} THEN { << >>, <<CarlRoe>> } ELSE { << >> }
(* how many progress reports of the first phase precede a thrown page operation *)
FailureStages(e) == IF e.site = "rich" THEN 1..3 ELSE {1}
(* whether operations of the browser fail on their own (timeouts, a     *)
(* changed page); everywhere they fail once the browser has been closed *)
Faulty(e) == e.site = "rich"
MaxConnectionsChoices(e) ==
  IF e.site = "large" THEN {0, LargeCap}
  ELSE IF e.site = "rich" THEN {0, SmallCap} ELSE {0}

(* the regular expressions of processCompanyConnections *)
(* /\d+\s+connections?\s+work here/i *)
MatchesWorkHere(info) ==
  \E i \in 1..Len(info) :
    IsNumber(info[i]) /\ WordsAt(info, i + 1, <<{"connection", "connections"}, {"work"}, {"here"}>>)

(* the places where /(\d+)\s+(connections?|people)/i matches *)
NumericMatches(info) ==
  {i \in 1..(Len(info) - 1) :
     IsNumber(info[i]) /\ toLowerCase(info[i + 1]) \in {"connection", "connections", "people"}}

(* parseInt of the first match *)
CountInInfo(info) ==
  parseInt(info[CHOOSE i \in NumericMatches(info) : \A j \in NumericMatches(info) : i <= j])

IsPeopleSearch(url) == url = PeopleSearchUrl

(* ---------------- DatabaseManager ---------------- *)
SessionIds == 1..MaxSessions

(* crypto.randomUUID(): a fresh identifier, named here by the number of   *)
(* the run that asks for it and the number of identifiers it has drawn    *)
randomUUID(w) == <<w.procs[w.self].run, w.procs[w.self].uuids>>
Drawn(w) == [w EXCEPT !.procs[w.self].uuids = @ + 1]

createCrawlSession(w, session) ==
  LET id == w.store.nextSession
  IN [w |-> [w EXCEPT !.store.crawl_sessions = @ @@ (id :> session),
                      !.store.nextSession = id + 1],
      id |-> id]

(* the null a lookup returns when there is no row *)
NullSession == [mode |-> Null, status |-> Null, progress |-> 0, error |-> Null]
NullId == <<0, 0>>
NullCompany == [id |-> NullId, name |-> Null, linkedinUrl |-> Null]

getCrawlSession(w, id) ==
  IF id \in DOMAIN w.store.crawl_sessions THEN w.store.crawl_sessions[id] ELSE NullSession

(* updates is a function from some of the column names to their new values *)
updateCrawlSession(w, id, updates) ==
  IF id \in DOMAIN w.store.crawl_sessions /\ DOMAIN updates # {}
  THEN [w EXCEPT !.store.crawl_sessions[id] =
          [f \in DOMAIN @ |-> IF f \in DOMAIN updates THEN updates[f] ELSE @[f]]]
  ELSE w

(* a delete without the cascade of the foreign keys *)
deleteCrawlSession_nocascade(w, id) ==
  [w EXCEPT !.store.crawl_sessions = [s \in DOMAIN @ \ {id} |-> @[s]]]

(* DELETE FROM crawl_sessions, with the ON DELETE CASCADE of connections *)
(* and company_connections                                               *)
deleteCrawlSession(w, id) ==
  LET gone == {c \in w.store.connections : c.crawlSessionId = id}
      goneIds == {c.id : c \in gone}
  IN [w EXCEPT
        !.store.crawl_sessions = [s \in DOMAIN @ \ {id} |-> @[s]],
        !.store.connections = @ \ gone,
        !.store.company_connections =
           {cc \in @ : cc.crawlSessionId # id /\ cc.connectionId \notin goneIds}]

(* an insert without the foreign key *)
createConnection_unchecked(w, connection) ==
  LET id == randomUUID(w)
  IN [w |-> [Drawn(w) EXCEPT !.store.connections = @ \cup {[id |-> id] @@ connection}],
      id |-> id, thrown |-> Null]

(* INSERT INTO connections; the foreign key on crawl_session_id makes the *)
(* insert throw when the session row is gone                              *)
createConnection(w, connection) ==
  IF connection.crawlSessionId \notin DOMAIN w.store.crawl_sessions
  THEN [w |-> w, id |-> NullId, thrown |-> "FOREIGN KEY constraint failed"]
  ELSE LET id == randomUUID(w)
       IN [w |-> [Drawn(w) EXCEPT !.store.connections = @ \cup {[id |-> id] @@ connection}],
           id |-> id, thrown |-> Null]

(* a plain INSERT into a table without the UNIQUE constraint *)
createCompany_insert(w, company) ==
  LET id == randomUUID(w)
  IN [w |-> [Drawn(w) EXCEPT !.store.companies = @ \cup {[id |-> id] @@ company}],
      id |-> id]

(* INSERT OR REPLACE INTO companies: a row with the same linkedin_url is  *)
(* deleted (with the cascade to company_connections) and a row with a new *)
(* id inserted                                                            *)
createCompany(w, company) ==
  LET id == randomUUID(w)
      old == {c \in w.store.companies : c.linkedinUrl = company.linkedinUrl}
      oldIds == {c.id : c \in old}
  IN [w |-> [Drawn(w) EXCEPT
               !.store.companies = (@ \ old) \cup {[id |-> id] @@ company},
               !.store.company_connections = {cc \in @ : cc.companyId \notin oldIds}],
      id |-> id]

getCompanyByLinkedInUrl(w, linkedinUrl) ==
  LET found == {c \in w.store.companies : c.linkedinUrl = linkedinUrl}
  IN IF found = {} THEN NullCompany ELSE CHOOSE c \in found : TRUE

createCompanyConnection(w, companyConnection) ==
  IF \/ companyConnection.crawlSessionId \notin DOMAIN w.store.crawl_sessions
     \/ companyConnection.companyId \notin {c.id : c \in w.store.companies}
     \/ companyConnection.connectionId \notin {c.id : c \in w.store.connections}
  THEN [w |-> w, id |-> NullId, thrown |-> "FOREIGN KEY constraint failed"]
  ELSE LET id == randomUUID(w)
       IN [w |-> [Drawn(w) EXCEPT !.store.company_connections =
                                     @ \cup {[id |-> id] @@ companyConnection}],
           id |-> id, thrown |-> Null]

(* ---------------- LinkedInCrawler: fields and close ---------------- *)
NewCrawler(settings) ==
  [browser |-> FALSE, page |-> FALSE, settings |-> settings, chromium |-> "none"]

(* a page operation can succeed only on a page of a browser still open *)
PageUsable(w, c) == w.crawlers[c].page /\ w.crawlers[c].chromium = "open"

(* close(), up to its await: browser.close() is called when this.browser *)
(* is set, and the chromium process goes away                            *)
closeBegin(w, c) ==
  IF w.crawlers[c].browser
  THEN [w EXCEPT !.crawlers[c].chromium = "closed"]
  ELSE w

(* close(), after its await: the fields are cleared *)
closeEnd(w, c) ==
  [w EXCEPT !.crawlers[c].browser = FALSE, !.crawlers[c].page = FALSE]

MapDelete(m, k) == [x \in DOMAIN m \ {k} |-> m[x]]
MapSet(m, k, v) == [x \in DOMAIN m \cup {k} |-> IF x = k THEN v ELSE m[x]]

(* ---------------- startCrawlProcess: progress, catch, finally ---------------- *)
SessionOf(w, p) == w.procs[p].sessionId

(* a progress write of run p, kept in the run's history *)
writeProgress(w, p, value) ==
  [updateCrawlSession(w, SessionOf(w, p), [progress |-> value])
     EXCEPT !.obs[p].reported = Append(@, value)]

(* onProgress: db.updateCrawlSession(sessionId, {progress: Math.round(progress)}), *)
(* the progress being the rational num/den                                          *)
onProgress(w, p, num, den) == writeProgress(w, p, MathRound(num, den))

(* a catch block that also resets the progress *)
catchError_reset(w, p, errorMessage) ==
  [updateCrawlSession(w, SessionOf(w, p),
                      [status |-> "failed", error |-> errorMessage, progress |-> 0])
     EXCEPT !.obs[p].outcome = "failed"]

(* a catch block that only logs the error *)
catchError_logged(w, p, errorMessage) == [w EXCEPT !.obs[p].outcome = "failed"]

(* the catch block: status failed and the message, progress untouched *)
catchError(w, p, errorMessage) ==
  [updateCrawlSession(w, SessionOf(w, p), [status |-> "failed", error |-> errorMessage])
     EXCEPT !.obs[p].outcome = "failed"]

(* a finally block that closes only a crawler still registered *)
finallyBegin_registered(w, p) ==
  IF w.crawlers[p].browser /\ SessionOf(w, p) \in DOMAIN w.activeCrawlers
  THEN [[w EXCEPT !.crawlers[p].chromium = "closed"] EXCEPT !.procs[p].pc = "closing"]
  ELSE [w EXCEPT !.activeCrawlers = MapDelete(@, SessionOf(w, p)),
                 !.procs[p].pc = "done"]

(* the finally block up to the await inside close(): with no browser set *)
(* close() returns at once and the registry entry is deleted in the same *)
(* run; otherwise the run is suspended in browser.close()                *)
finallyBegin(w, p) ==
  IF w.crawlers[p].browser
  THEN [closeBegin(w, p) EXCEPT !.procs[p].pc = "closing"]
  ELSE [w EXCEPT !.activeCrawlers = MapDelete(@, SessionOf(w, p)),
                 !.procs[p].pc = "done"]

(* the finally block after the await: fields cleared, registry entry of *)
(* the session id deleted                                               *)
finallyEnd(w, p) ==
  [closeEnd(w, p) EXCEPT !.activeCrawlers = MapDelete(@, SessionOf(w, p)),
                         !.procs[p].pc = "done"]

(* an error reaches the try of startCrawlProcess *)
crawlFailed(w, p, errorMessage) == finallyBegin(catchError(w, p, errorMessage), p)

(* the crawl function returned: mark as completed *)
markCompleted(w, p) ==
  [updateCrawlSession(w, SessionOf(w, p), [status |-> "completed", progress |-> 100])
     EXCEPT !.obs[p].reported = Append(@, 100), !.obs[p].outcome = "completed"]

crawlReturned(w, p) == finallyBegin(markCompleted(w, p), p)

(* ---------------- extractCompaniesFromSearch ---------------- *)
(* a cascade in which the last matching selector wins *)
usedSelector_last(document) ==
  LET matching == {k \in 1..NumSelectors : Len(document[k]) > 0}
  IN IF matching = {} THEN 0 ELSE CHOOSE k \in matching : \A j \in matching : j <= k

(* the loop over possibleSelectors from selector k on: the first selector *)
(* with elements.length > 0, and 0 for the usedSelector left ''           *)
RECURSIVE firstMatch(_, _)
firstMatch(document, k) ==
  IF k > NumSelectors THEN 0
  ELSE IF Len(document[k]) > 0 THEN k
  ELSE firstMatch(document, k + 1)

usedSelector(document) == firstMatch(document, 1)

(* "Only add if we have a valid company name and LinkedIn URL" *)
IsCompany(card) == card.name # "" /\ card.linkedinUrl # ""

(* what page.evaluate returns: no companies when no selector matched, *)
(* otherwise the valid companies among the cards of the used selector *)
extractCompaniesFromSearch(document) ==
  LET used == usedSelector(document)
  IN [usedSelector |-> used,
      companies |-> IF used = 0 THEN << >> ELSE SelectSeq(document[used], IsCompany)]

(* ---------------- crawlFirstDegreeConnections ---------------- *)
CurrentCompany(w, p) == w.procs[p].companies[w.procs[p].processedCount + 1]

(* the catch of crawlFirstDegreeConnections wraps the message and rethrows *)
firstDegreeCrawlFailed(w, p, message) ==
  crawlFailed(w, p, "First degree crawl failed: " \o message)

(* after the loop: progressCallback(100) and return to startCrawlProcess *)
firstDegreeCrawlDone(w, p) == crawlReturned(onProgress(w, p, 100, 1), p)

(* connectionInfo.includes('connection') || connectionInfo.includes('people') *)
IncludesConnectionOrPeople(info) ==
  \E i \in 1..Len(info) : info[i] \in {"connection", "connections", "people"}

(* .replace(/\s+(work here|were hired here).*$/i, '').replace(/^\d+\s+/, '').trim() *)
CleanedWords(info) ==
  LET cuts == {i \in 2..Len(info) :
                 \/ WordsAt(info, i, <<{"work"}, {"here"}>>)
                 \/ WordsAt(info, i, <<{"were"}, {"hired"}, {"here"}>>)}
      kept == IF cuts = {} THEN info
              ELSE SubSeq(info, 1, (CHOOSE i \in cuts : \A j \in cuts : i <= j) - 1)
  IN IF Len(kept) >= 2 /\ IsNumber(kept[1]) THEN Tail(kept) ELSE kept

(* a fallback that takes what the expressions give, without defaults *)
FallbackName_raw(info) ==
  IF IncludesConnectionOrPeople(info)
  THEN IF NumericMatches(info) # {}
       THEN ToString(CountInInfo(info)) \o " Connections"
       ELSE Join(CleanedWords(info))
  ELSE IF Len(info) >= 2 /\ IsCapitalized(info[1]) /\ IsCapitalized(info[2])
       THEN info[1] \o " " \o info[2]
       ELSE ""

(* a fallback with the counted form, the name at the start and the last *)
(* default only                                                         *)
FallbackName_plain(info) ==
  IF NumericMatches(info) # {}
  THEN IF CountInInfo(info) = 1 THEN "1st Degree Connection"
       ELSE ToString(CountInInfo(info)) \o " Connections"
  ELSE IF Len(info) >= 2 /\ IsCapitalized(info[1]) /\ IsCapitalized(info[2])
       THEN info[1] \o " " \o info[2]
       ELSE "Network Connection"

(* the name synthesized when a company has no connection names *)
FallbackName(info) ==
  IF IncludesConnectionOrPeople(info)
  THEN IF NumericMatches(info) # {}
       THEN IF CountInInfo(info) = 1 THEN "1st Degree Connection"
            ELSE ToString(CountInInfo(info)) \o " Connections"
       ELSE LET words == CleanedWords(info)
            IN IF \E i \in 1..Len(words) :
                    toLowerCase(words[i]) \in {"connection", "connections"}
               THEN "Your Network Connection"
               ELSE IF \E i \in 1..Len(words) : toLowerCase(words[i]) = "people"
                    THEN "Network Contact"
                    ELSE Join(words)
  ELSE IF Len(info) >= 2 /\ IsCapitalized(info[1]) /\ IsCapitalized(info[2])
       THEN info[1] \o " " \o info[2]
       ELSE "Network Connection"

ConnectionRow(sessionId, company, connection) ==
  [crawlSessionId |-> sessionId, name |-> connection.name,
   headline |-> Join(company.connectionInfo), profileUrl |-> connection.profileUrl,
   connectionDegree |-> 1, company |-> company.name, companyUrl |-> company.linkedinUrl]

LinkRow(sessionId, companyId, connectionId, path) ==
  [companyId |-> companyId, connectionId |-> connectionId,
   crawlSessionId |-> sessionId, connectionPath |-> path]

(* a Connection row without its CompanyConnection row *)
createLinkedConnection_bare(w, sessionId, company, companyId, connection) ==
  LET r1 == createConnection(w, ConnectionRow(sessionId, company, connection))
  IN [w |-> r1.w, thrown |-> r1.thrown]

(* one Connection row and one CompanyConnection row; a store error stops it *)
createLinkedConnection(w, sessionId, company, companyId, connection) ==
  LET r1 == createConnection(w, ConnectionRow(sessionId, company, connection))
      r2 == createCompanyConnection(r1.w,
              LinkRow(sessionId, companyId, r1.id, "You -> " \o connection.name))
  IN IF r1.thrown # Null THEN [w |-> r1.w, thrown |-> r1.thrown]
     ELSE [w |-> r2.w, thrown |-> r2.thrown]

RECURSIVE createNamedConnections(_, _, _, _, _)
createNamedConnections(w, sessionId, company, companyId, names) ==
  IF names = << >> THEN [w |-> w, thrown |-> Null]
  ELSE LET r == createLinkedConnection(w, sessionId, company, companyId, Head(names))
       IN IF r.thrown # Null THEN r
          ELSE createNamedConnections(r.w, sessionId, company, companyId, Tail(names))

(* processCompanyConnections from "Create connections based on what we   *)
(* extracted" on: the named rows, or the one fallback row                *)
createCompanyRows(w, sessionId, company, companyId, names) ==
  IF names # << >>
  THEN createNamedConnections(w, sessionId, company, companyId, names)
  ELSE createLinkedConnection(w, sessionId, company, companyId,
         [name |-> FallbackName(company.connectionInfo), profileUrl |-> ""])

(* an iteration that waits after every company, the last one included *)
finishCompany_always(w, p, names) ==
  LET pr == w.procs[p]
      n == Len(pr.companies)
      k == pr.processedCount + 1
      r == createCompanyRows(w, pr.sessionId, CurrentCompany(w, p), pr.companyId, names)
      w1 == [r.w EXCEPT !.procs[p].processedCount = k,
                        !.procs[p].processedConnectionNames = << >>,
                        !.procs[p].j = 0]
      w2 == onProgress(w1, p, 60 * Max(n, 1) + 35 * k, Max(n, 1))
  IN IF r.thrown # Null
     THEN firstDegreeCrawlFailed([r.w EXCEPT !.obs[p].itemFailed = TRUE], p, r.thrown)
     ELSE [w2 EXCEPT !.procs[p].pc = "fc_pace", !.obs[p].paces = @ + 1]

(* the rest of one loop iteration once the names of the company are known: *)
(* the rows, processedCount++, the progress report and either the pacing   *)
(* wait or the end of the crawl; a store error is rethrown by              *)
(* processCompanyConnections and leaves the loop                           *)
finishCompany(w, p, names) ==
  LET pr == w.procs[p]
      n == Len(pr.companies)
      k == pr.processedCount + 1
      r == createCompanyRows(w, pr.sessionId, CurrentCompany(w, p), pr.companyId, names)
      w1 == [r.w EXCEPT !.procs[p].processedCount = k,
                        !.procs[p].processedConnectionNames = << >>,
                        !.procs[p].j = 0]
      w2 == onProgress(w1, p, 60 * Max(n, 1) + 35 * k, Max(n, 1))
  IN IF r.thrown # Null
     THEN firstDegreeCrawlFailed([r.w EXCEPT !.obs[p].itemFailed = TRUE], p, r.thrown)
     ELSE IF k < n THEN [w2 EXCEPT !.procs[p].pc = "fc_pace", !.obs[p].paces = @ + 1]
     ELSE firstDegreeCrawlDone(w2, p)

(* processCompanyConnections up to the visit of the company page: the  *)
(* company is looked up by URL and created when absent; with no names  *)
(* and a "<N> connections work here" text the company page is visited, *)
(* which returns at once when this.page is null                        *)
processCompanyConnections(w, p, names) ==
  LET company == CurrentCompany(w, p)
      existingCompany == getCompanyByLinkedInUrl(w, company.linkedinUrl)
      created == createCompany(w, [name |-> company.name, linkedinUrl |-> company.linkedinUrl])
      w1 == IF existingCompany # NullCompany
            THEN [w EXCEPT !.procs[p].companyId = existingCompany.id]
            ELSE [created.w EXCEPT !.procs[p].companyId = created.id]
  IN IF names = << >> /\ MatchesWorkHere(company.connectionInfo) /\ w.crawlers[p].page
     THEN [w1 EXCEPT !.procs[p].pc = "fc_page"]
     ELSE finishCompany(w1, p, names)

(* a scan that takes every entry as it is, summary links included *)
KeepUntilSummary_all(names, j, kept) ==
  [j |-> Len(names) + 1,
   kept |-> IF j > Len(names) THEN kept ELSE kept \o SubSeq(names, j, Len(names))]

(* processConnectionSummaryLinks from entry j on: entries that are not  *)
(* summary links to a people search are kept as they are; at a summary  *)
(* link the run is suspended in extractIndividualConnections            *)
RECURSIVE KeepUntilSummary(_, _, _)
KeepUntilSummary(names, j, kept) ==
  IF j > Len(names) THEN [j |-> j, kept |-> kept]
  ELSE IF names[j].isConnectionSummary /\ IsPeopleSearch(names[j].profileUrl)
       THEN [j |-> j, kept |-> kept]
       ELSE KeepUntilSummary(names, j + 1, Append(kept, names[j]))

processConnectionSummaryLinks(w, p, j, kept) ==
  LET names == CurrentCompany(w, p).connectionNames
      scan == KeepUntilSummary(names, j, kept)
  IN IF scan.j <= Len(names)
     THEN [w EXCEPT !.procs[p].pc = "fc_resolve", !.procs[p].j = scan.j,
                    !.procs[p].processedConnectionNames = scan.kept]
     ELSE processCompanyConnections(w, p, scan.kept)

(* the head of the company loop *)
nextCompany(w, p) ==
  IF w.procs[p].processedCount >= Len(w.procs[p].companies)
  THEN firstDegreeCrawlDone(w, p)
  ELSE processConnectionSummaryLinks(w, p, 1, << >>)

(* ---------------- crawlFriendsOfFriends ---------------- *)
friendsCrawlFailed(w, p, message) ==
  crawlFailed(w, p, "Friends of friends crawl failed: " \o message)

(* a cap that is the number of connections extracted *)
ConnectionCap_all(w, p) == w.procs[p].firstDegreeConnections

(* this.settings.maxConnections || 50 (0 stands for an absent setting) *)
ConnectionCap(w, p) ==
  IF w.crawlers[p].settings.maxConnections = 0 THEN DefaultMaxConnections
  ELSE w.crawlers[p].settings.maxConnections

(* the length of firstDegreeConnections.slice(0, cap) *)
SliceLength(w, p) == Min(w.procs[p].firstDegreeConnections, ConnectionCap(w, p))

DirectConnection(i) ==
  [name |-> PersonName(i), headline |-> "", profileUrl |-> ProfileUrl(i)]

(* analyzeFriendNetwork for a profile visit with the given result: the  *)
(* early return on a null page, a thrown navigation or evaluation, a    *)
(* profile without an experience item, or the employer found;           *)
(* everything thrown inside is caught                                   *)
analyzeFriendNetwork(w, p, connection, result) ==
  IF result.kind = "no_page" THEN w
  ELSE IF result.kind = "thrown" THEN [w EXCEPT !.obs[p].itemFailed = TRUE]
  ELSE IF result.kind = "no_company" THEN w
  ELSE
    LET sessionId == SessionOf(w, p)
        existingCompany == getCompanyByLinkedInUrl(w, result.linkedinUrl)
        created == createCompany(w, [name |-> result.name, linkedinUrl |-> result.linkedinUrl])
        companyId == IF existingCompany # NullCompany THEN existingCompany.id ELSE created.id
        w1 == IF existingCompany # NullCompany THEN w ELSE created.w
        r1 == createConnection(w1,
                [crawlSessionId |-> sessionId, name |-> connection.name,
                 headline |-> connection.headline, profileUrl |-> connection.profileUrl,
                 connectionDegree |-> 1, company |-> result.name,
                 companyUrl |-> result.linkedinUrl])
        r2 == createCompanyConnection(r1.w,
                LinkRow(sessionId, companyId, r1.id,
                        "You -> " \o connection.name \o " works here"))
    IN IF r1.thrown # Null THEN [r1.w EXCEPT !.obs[p].itemFailed = TRUE]
       ELSE IF r2.thrown # Null THEN [r2.w EXCEPT !.obs[p].itemFailed = TRUE]
       ELSE r2.w

(* after the loop: progressCallback(100) and return *)
friendsCrawlDone(w, p) == crawlReturned(onProgress(w, p, 100, 1), p)

(* an iteration that lets a thrown analysis leave the loop *)
friendsIteration_abort(w, p, result) ==
  LET i == w.procs[p].i + 1
      k == w.procs[p].processedCount + 1
      d == Min(w.procs[p].firstDegreeConnections, ProgressDivisorCap)
      w1 == analyzeFriendNetwork(w, p, DirectConnection(i), result)
      w2 == [w1 EXCEPT !.procs[p].i = i, !.procs[p].processedCount = k]
  IN IF w1.obs[p].itemFailed /\ ~w.obs[p].itemFailed
     THEN friendsCrawlFailed(w1, p, "page.goto: Timeout 30000ms exceeded")
     ELSE [onProgress(w2, p, 30 * d + 65 * k, d) EXCEPT !.procs[p].pc = "ff_pace"]

(* one iteration: analyzeFriendNetwork, processedCount++, the progress   *)
(* report with divisor Math.min(length, 50), up to the pacing wait       *)
friendsIteration(w, p, result) ==
  LET i == w.procs[p].i + 1
      k == w.procs[p].processedCount + 1
      d == Min(w.procs[p].firstDegreeConnections, ProgressDivisorCap)
      w1 == analyzeFriendNetwork(w, p, DirectConnection(i), result)
      w2 == [w1 EXCEPT !.procs[p].i = i, !.procs[p].processedCount = k]
  IN [onProgress(w2, p, 30 * d + 65 * k, d) EXCEPT !.procs[p].pc = "ff_pace"]

(* the head of the loop over the sliced connections: with this.page null *)
(* analyzeFriendNetwork returns at once and the iteration runs up to its *)
(* pacing wait; otherwise the profile navigation is pending              *)
nextFriend(w, p) ==
  IF w.procs[p].i >= SliceLength(w, p) THEN friendsCrawlDone(w, p)
  ELSE IF ~w.crawlers[p].page THEN friendsIteration(w, p, ProfileNoPage)
  ELSE [w EXCEPT !.procs[p].pc = "ff_item"]

(* ---------------- requests of the user ---------------- *)
NewProc(run, sessionId, mode) ==
  [pc |-> "launch", run |-> run, sessionId |-> sessionId, mode |-> mode, companies |-> << >>,
   processedCount |-> 0, j |-> 0, processedConnectionNames |-> << >>,
   companyId |-> NullId, firstDegreeConnections |-> 0, i |-> 0, uuids |-> 0,
   document |-> NoDocument, usedSelector |-> 0]

IdleProc == [NewProc(0, 0, "first_connections") EXCEPT !.pc = "idle"]

NewObs == [reported |-> << >>, outcome |-> "none", cancelled |-> FALSE,
           itemFailed |-> FALSE, unresolved |-> {}, loginFailed |-> FALSE, paces |-> 0,
           searched |-> << >>, found |-> << >>]

(* POST /api/crawl/sessions: a pending session *)
CreateSession(mode) ==
  /\ store.nextSession <= env.maxSessions
  /\ Become(createCrawlSession(World(NoProc),
              [mode |-> mode, status |-> "pending", progress |-> 0, error |-> Null]).w)

(* DELETE /api/crawl/sessions/[id] *)
DeleteSession(id) ==
  /\ id \in DOMAIN store.crawl_sessions
  /\ env.deletes
  /\ Become(deleteCrawlSession(World(NoProc), id))

alreadyRunning_never(session) == FALSE

(* session.status === 'running': 'Session is already running' *)
alreadyRunning(session) == session.status = "running"

(* POST /api/crawl/start and startCrawlProcess up to `await initialize()`: *)
(* refused for an unknown or a running session; otherwise a crawler is     *)
(* made and registered, the session set to running with progress 0, and    *)
(* chromium.launch is pending                                              *)
POST(sessionId, maxConnections) ==
  LET w == World(NoProc)
      session == getCrawlSession(w, sessionId)
      idle == {q \in Procs : procs[q].pc = "idle"}
      p == CHOOSE q \in idle : \A o \in idle : q <= o
      w1 == [w EXCEPT !.env.started = @ + 1,
                      !.crawlers[p] = NewCrawler([maxConnections |-> maxConnections]),
                      !.activeCrawlers = MapSet(@, sessionId, p),
                      !.procs[p] = NewProc(env.started + 1, sessionId, session.mode)]
      w2 == updateCrawlSession(w1, sessionId, [status |-> "running", progress |-> 0])
  IN /\ env.started < env.maxStarts
     /\ idle # {}
     /\ session # NullSession
     /\ ~alreadyRunning(session)
     /\ Become([w2 EXCEPT !.obs[p].reported = <<0>>])

(* the end of a cancel: registry entry deleted, session marked failed *)
cancelEnd(w, sessionId, c) ==
  [updateCrawlSession([w EXCEPT !.activeCrawlers = MapDelete(@, sessionId)],
                      sessionId, [status |-> "failed", error |-> "Cancelled by user"])
     EXCEPT !.obs[c].cancelled = TRUE]

(* DELETE /api/crawl/start up to the await inside close() *)
DELETE(sessionId) ==
  LET w == World(NoProc)
      c == activeCrawlers[sessionId]
  IN /\ sessionId \in DOMAIN activeCrawlers
     /\ IF crawlers[c].browser
        THEN Become([closeBegin(w, c) EXCEPT
                       !.requests = @ \cup {[sessionId |-> sessionId, crawler |-> c]}])
        ELSE Become(cancelEnd(w, sessionId, c))

(* DELETE /api/crawl/start after the await *)
DELETEResume(r) ==
  /\ r \in requests
  /\ Become([cancelEnd(closeEnd(World(NoProc), r.crawler), r.sessionId, r.crawler)
               EXCEPT !.requests = @ \ {r}])

(* ---------------- the steps of a crawl process ---------------- *)
At(p, label) == procs[p].pc = label

LaunchErrors == {"browserType.launch: Timeout 60000ms exceeded"}
ContextErrors == {"browser.newContext: Target page, context or browser has been closed"}
(* what login() throws on a challenge URL, on a login URL and on any  *)
(* other URL without the navigation landmark                          *)
LoginErrors ==
  { "LinkedIn security challenge required. Please login manually first.",
    "Login failed. Please check your credentials.",
    "Login status unclear. Current URL: https://www.linkedin.com/" }
ClosedErrors == {"page.goto: Target page, context or browser has been closed"}
PageErrors == {"page.goto: Timeout 30000ms exceeded"}

(* initialize(): chromium.launch resolved, newContext pending *)
LaunchDone(p) ==
  /\ At(p, "launch")
  /\ Become([World(p) EXCEPT !.crawlers[p].browser = TRUE,
                             !.crawlers[p].chromium = "open",
                             !.procs[p].pc = "context"])

LaunchFailed(p, message) ==
  /\ At(p, "launch")
  /\ Faulty(env)
  /\ Become(crawlFailed(World(p), p, message))

(* initialize(): newContext and newPage resolved; login's first navigation pending *)
ContextDone(p) ==
  /\ At(p, "context")
  /\ crawlers[p].chromium = "open"
  /\ Become([World(p) EXCEPT !.crawlers[p].page = TRUE, !.procs[p].pc = "login"])

ContextFailed(p, message) ==
  /\ At(p, "context")
  /\ crawlers[p].chromium # "open" \/ Faulty(env)
  /\ Become(crawlFailed(World(p), p, message))

(* login() returned true (its last steps, after the 3 s wait, only read   *)
(* this.page.url()): progress 5, then the crawl function runs up to its   *)
(* first navigation, reporting progress 0                                 *)
LoginDone(p) ==
  /\ At(p, "login")
  /\ crawlers[p].page
  /\ LET w1 == writeProgress(World(p), p, 5)
         w2 == onProgress(w1, p, 0, 1)
     IN Become([w2 EXCEPT !.procs[p].pc =
                  IF procs[p].mode = "first_connections" THEN "fc_nav" ELSE "ff_nav"])

(* a login whose failure is reported as `false` and not looked at: the *)
(* run goes on as after a successful login                             *)
LoginFailed_ignored(p, message) ==
  /\ At(p, "login")
  /\ crawlers[p].page
  /\ \/ ~PageUsable(World(p), p) /\ message \in ClosedErrors
     \/ Faulty(env) /\ message \in LoginErrors
  /\ LET w0 == [World(p) EXCEPT !.obs[p].loginFailed = TRUE]
         w1 == writeProgress(w0, p, 5)
         w2 == onProgress(w1, p, 0, 1)
     IN Become([w2 EXCEPT !.procs[p].pc =
                  IF procs[p].mode = "first_connections" THEN "fc_nav" ELSE "ff_nav"])

(* login() threw, because a page operation failed or because the URL   *)
(* after the login attempt is not that of a signed-in page: its catch  *)
(* rethrows `Login failed: <message>`                                  *)
LoginFailed(p, message) ==
  /\ At(p, "login")
  /\ \/ ~PageUsable(World(p), p) /\ message \in ClosedErrors
     \/ Faulty(env) /\ message \in LoginErrors
  /\ Become(crawlFailed([World(p) EXCEPT !.obs[p].loginFailed = TRUE], p,
                        "Login failed: " \o message))

(* the search page was loaded, scrolled and extracted: progress 10, 30, *)
(* 60 and the first company.  With this.page null (closed during the    *)
(* last scroll wait) extractCompaniesFromSearch returns []; a page       *)
(* operation of it that throws, the HTML sample taken when no selector   *)
(* matched included, is FcSearchFailed                                   *)
FcSearched(p, document) ==
  /\ At(p, "fc_nav")
  /\ IF PageUsable(World(p), p) THEN document \in Documents(env)
     ELSE ~crawlers[p].page /\ document = NoDocument
  /\ LET result == IF document = NoDocument THEN [usedSelector |-> 0, companies |-> << >>]
                   ELSE extractCompaniesFromSearch(document)
         w1 == onProgress(onProgress(World(p), p, 10, 1), p, 30, 1)
         w2 == [w1 EXCEPT !.procs[p].companies = result.companies,
                          !.procs[p].document = document,
                          !.procs[p].usedSelector = result.usedSelector]
     IN Become(nextCompany(onProgress(w2, p, 60, 1), p))

(* a navigation or page operation of that phase threw, after `stage - 1` *)
(* of its progress reports                                               *)
FcSearchFailed(p, stage, message) ==
  /\ At(p, "fc_nav")
  /\ ~PageUsable(World(p), p) \/ Faulty(env)
  /\ LET w0 == World(p)
         w1 == IF stage >= 2 THEN onProgress(w0, p, 10, 1) ELSE w0
         w2 == IF stage >= 3 THEN onProgress(w1, p, 30, 1) ELSE w1
     IN Become(firstDegreeCrawlFailed(w2, p, message))

(* extractIndividualConnections came back for summary link j: the people *)
(* found, or [] because it threw inside ("thrown") or found this.page    *)
(* null ("no_page"); then the 2 s wait and the rest of the links         *)
FcResolved(p, result) ==
  /\ At(p, "fc_resolve")
  /\ \/ PageUsable(World(p), p) /\ result \in ResolveResults(env)
     \/ (~PageUsable(World(p), p) \/ Faulty(env)) /\ result = Thrown
     \/ ~crawlers[p].page /\ result = NoPage
  /\ LET w == World(p)
         found == result.people
         link == CurrentCompany(w, p).connectionNames[procs[p].j]
         w1 == IF result = Thrown
               THEN [w EXCEPT !.obs[p].unresolved =
                       @ \cup {[index |-> procs[p].processedCount + 1, link |-> link]}]
               ELSE [w EXCEPT !.obs[p].searched = result.page, !.obs[p].found = found]
     IN Become(processConnectionSummaryLinks(w1, p, procs[p].j + 1,
                 procs[p].processedConnectionNames \o found))

(* extractConnectionsFromCompanyPage came back (at most 5 names, [] when *)
(* it threw inside); the company's rows are written                      *)
FcPageVisited(p, result) ==
  /\ At(p, "fc_page")
  /\ \/ PageUsable(World(p), p) /\ result \in CompanyPageResults(env)
     \/ (~PageUsable(World(p), p) \/ Faulty(env)) /\ result = << >>
  /\ Become(finishCompany(World(p), p, SubSeq(result, 1, Min(Len(result), CompanyPageLimit))))

(* the rateLimit wait between two companies is over *)
FcPaced(p) ==
  /\ At(p, "fc_pace")
  /\ Become(nextCompany(World(p), p))

(* the connections page was loaded, scrolled and extracted: progress 10, *)
(* 30.  With this.page null scrollToLoadResults and                      *)
(* extractDirectConnections return at once, the latter with []           *)
FfListed(p, count) ==
  /\ At(p, "ff_nav")
  /\ IF PageUsable(World(p), p) THEN count \in DirectCounts(env)
     ELSE ~crawlers[p].page /\ count = 0
  /\ LET w1 == onProgress(onProgress(World(p), p, 10, 1), p, 30, 1)
     IN Become(nextFriend([w1 EXCEPT !.procs[p].firstDegreeConnections = count], p))

FfListFailed(p, stage, message) ==
  /\ At(p, "ff_nav")
  /\ ~PageUsable(World(p), p) \/ Faulty(env)
  /\ LET w0 == World(p)
         w1 == IF stage >= 2 THEN onProgress(w0, p, 10, 1) ELSE w0
     IN Become(friendsCrawlFailed(w1, p, message))

(* the page operations of analyzeFriendNetwork are over: they found the *)
(* employer or none, or threw (as they do once the browser is closed)   *)
FfAnalysed(p, result) ==
  /\ At(p, "ff_item")
  /\ \/ PageUsable(World(p), p) /\ result \in ProfileResults(env)
     \/ (~PageUsable(World(p), p) \/ Faulty(env)) /\ result = ProfileThrown
  /\ Become(friendsIteration(World(p), p, result))

(* the rateLimit wait after a connection is over *)
FfPaced(p) ==
  /\ At(p, "ff_pace")
  /\ Become(nextFriend(World(p), p))

(* the await of close() in the finally block is over *)
ProcessClosed(p) ==
  /\ At(p, "closing")
  /\ Become(finallyEnd(World(p), p))

(* startCrawlProcess has returned and nothing refers to its crawler any *)
(* more: the slot of the run is free for a later start                 *)
Returned(p) ==
  /\ At(p, "done")
  /\ \A r \in requests : r.crawler # p
  /\ \A id \in DOMAIN activeCrawlers : activeCrawlers[id] # p
  /\ Become([World(p) EXCEPT !.procs[p] = IdleProc,
                             !.crawlers[p] = NewCrawler([maxConnections |-> 0]),
                             !.obs[p] = NewObs])

(* ---------------- the database file ---------------- *)
TableNames == {"crawl_sessions", "connections", "companies", "company_connections"}

(* the columns of the CREATE TABLE statements of initTables *)
CurrentColumns(t) ==
  CASE t = "crawl_sessions" ->
         {"id", "created_at", "mode", "status", "progress", "total_connections",
          "processed_connections", "error"}
    [] t = "connections" ->
         {"id", "crawl_session_id", "name", "headline", "profile_url", "profile_image_url",
          "connection_source", "company", "company_url", "company_logo_url",
          "connection_degree", "mutual_connection", "location", "created_at"}
    [] t = "companies" ->
         {"id", "name", "linkedin_url", "logo_url", "description", "industry", "size",
          "location", "website", "created_at"}
    [] t = "company_connections" ->
         {"id", "company_id", "connection_id", "crawl_session_id", "connection_path",
          "created_at"}

(* the columns runMigrations adds to connections *)
MigratedColumns == {"profile_image_url", "connection_source"}

(* the indexes of initTables, each with its table *)
CurrentIndexes ==
  { <<"idx_connections_session", "connections">>,
    <<"idx_connections_degree", "connections">>,
    <<"idx_company_connections_session", "company_connections">>,
    <<"idx_company_connections_company", "company_connections">> }

(* PRAGMA table_info(t): no rows for a table that does not exist *)
tableInfo(tables, t) == IF t \in DOMAIN tables THEN tables[t] ELSE {}

(* ALTER TABLE t ADD COLUMN c *)
addColumn(tables, t, c) ==
  IF t \notin DOMAIN tables
  THEN [tables |-> tables, thrown |-> "no such table: " \o t]
  ELSE [tables |-> [tables EXCEPT ![t] = @ \cup {c}], thrown |-> Null]

(* one step of runMigrations: the column is added unless table_info lists it *)
migrate(r, c) ==
  IF r.thrown # Null \/ c \in tableInfo(r.tables, "connections") THEN r
  ELSE addColumn(r.tables, "connections", c)

runMigrations(tables) ==
  migrate(migrate([tables |-> tables, thrown |-> Null], "profile_image_url"),
          "connection_source")

(* CREATE TABLE IF NOT EXISTS for the four tables *)
createTables(tables) ==
  [t \in TableNames |-> IF t \in DOMAIN tables THEN tables[t] ELSE CurrentColumns(t)]

(* CREATE INDEX IF NOT EXISTS for the four indexes *)
createIndexes(indexes) == indexes \cup CurrentIndexes

(* new DatabaseManager(): the file is opened and initTables runs; an  *)
(* error of a statement leaves the constructor and getDatabase keeps  *)
(* no instance                                                        *)
initTables(f) ==
  LET m == runMigrations(f.tables)
  IN IF m.thrown # Null
     THEN [f EXCEPT !.tables = m.tables, !.instance = FALSE, !.thrown = m.thrown,
                    !.opens = @ + 1]
     ELSE [f EXCEPT !.tables = createTables(m.tables),
                    !.indexes = createIndexes(f.indexes),
                    !.instance = TRUE, !.thrown = Null, !.opens = @ + 1]

(* the files a process can find: a new empty one, and those written by *)
(* earlier versions, which had any of the tables, connections with or  *)
(* without the migrated columns, and the indexes of their tables       *)
StoredFiles ==
  { [tables |-> [t \in have |-> IF t = "connections" THEN CurrentColumns(t) \ lacking
                                ELSE CurrentColumns(t)],
     indexes |-> {i \in CurrentIndexes : i[2] \in have /\ indexed},
     instance |-> FALSE, thrown |-> Null, opens |-> 0] :
      have \in SUBSET TableNames, lacking \in SUBSET MigratedColumns, indexed \in BOOLEAN }

(* the file of a running server: opened, with the tables of this version *)
OpenedFile ==
  [tables |-> [t \in TableNames |-> CurrentColumns(t)], indexes |-> CurrentIndexes,
   instance |-> TRUE, thrown |-> Null, opens |-> 1]

(* getDatabase() in a process that has no instance *)
Open ==
  /\ ~file.instance
  /\ file.opens < MaxOpens
  /\ file' = initTables(file)
  /\ UNCHANGED <<store, activeCrawlers, crawlers, procs, requests, obs, env>>

(* the server process ends; the file stays *)
Exit ==
  /\ file.instance
  /\ file' = [file EXCEPT !.instance = FALSE]
  /\ UNCHANGED <<store, activeCrawlers, crawlers, procs, requests, obs, env>>

(* ---------------- specification ---------------- *)
(* The runs the model explores: one session started again and again, on *)
(* a plain site; several sessions, each started once; one run on a rich *)
(* site whose operations also fail on their own and whose session can   *)
(* be deleted; one run over many direct connections.                    *)
Environments ==
  { [site |-> "restart", maxStarts |-> MaxStarts, maxSessions |-> 1, deletes |-> FALSE, started |-> 0],
    [site |-> "plain", maxStarts |-> MaxSessions, maxSessions |-> MaxSessions,
     deletes |-> FALSE, started |-> 0],
    [site |-> "rich", maxStarts |-> 1, maxSessions |-> 1, deletes |-> TRUE, started |-> 0],
    [site |-> "large", maxStarts |-> 1, maxSessions |-> 1, deletes |-> FALSE, started |-> 0],
    [site |-> "texts", maxStarts |-> 1, maxSessions |-> 1, deletes |-> FALSE, started |-> 0],
    [site |-> "cascade", maxStarts |-> 1, maxSessions |-> 1, deletes |-> FALSE, started |-> 0],
    [site |-> "people", maxStarts |-> 1, maxSessions |-> 1, deletes |-> FALSE, started |-> 0] }

Init ==
  /\ store = [crawl_sessions |-> << >>, connections |-> {}, companies |-> {},
              company_connections |-> {}, nextSession |-> 1]
  /\ activeCrawlers = << >>
  /\ crawlers = [p \in Procs |-> NewCrawler([maxConnections |-> 0])]
  /\ procs = [p \in Procs |-> IdleProc]
  /\ requests = {}
  /\ obs = [p \in Procs |-> NewObs]
  /\ env \in Environments
  /\ file = OpenedFile

Next ==
  \/ \E mode \in Modes : CreateSession(mode)
  \/ \E id \in SessionIds : DeleteSession(id)
  \/ \E id \in SessionIds, m \in MaxConnectionsChoices(env) : POST(id, m)
  \/ \E id \in SessionIds : DELETE(id)
  \/ \E r \in requests : DELETEResume(r)
  \/ \E p \in Procs, m \in LaunchErrors : LaunchFailed(p, m)
  \/ \E p \in Procs : LaunchDone(p)
  \/ \E p \in Procs, m \in ContextErrors : ContextFailed(p, m)
  \/ \E p \in Procs : ContextDone(p)
  \/ \E p \in Procs, m \in LoginErrors \cup ClosedErrors : LoginFailed(p, m)
  \/ \E p \in Procs : LoginDone(p)
  \/ \E p \in Procs, d \in Documents(env) \cup {NoDocument} : FcSearched(p, d)
  \/ \E p \in Procs, stage \in FailureStages(env), m \in PageErrors : FcSearchFailed(p, stage, m)
  \/ \E p \in Procs, r \in ResolveResults(env) \cup {Thrown, NoPage} : FcResolved(p, r)
  \/ \E p \in Procs, r \in CompanyPageResults(env) \cup {<< >>} : FcPageVisited(p, r)
  \/ \E p \in Procs : FcPaced(p)
  \/ \E p \in Procs, n \in DirectCounts(env) \cup {0} : FfListed(p, n)
  \/ \E p \in Procs, stage \in FailureStages(env) \cap 1..2, m \in PageErrors : FfListFailed(p, stage, m)
  \/ \E p \in Procs, r \in ProfileResults(env) \cup {ProfileThrown} : FfAnalysed(p, r)
  \/ \E p \in Procs : FfPaced(p)
  \/ \E p \in Procs : ProcessClosed(p)
  \/ \E p \in Procs : Returned(p)

Spec == Init /\ [][Next]_vars

(* the step of run p that is pending: the operation it awaits returns or *)
(* throws, or its timer fires                                            *)
ProcessStep(p) ==
  \/ \E m \in LaunchErrors : LaunchFailed(p, m)
  \/ LaunchDone(p)
  \/ \E m \in ContextErrors : ContextFailed(p, m)
  \/ ContextDone(p)
  \/ \E m \in LoginErrors \cup ClosedErrors : LoginFailed(p, m)
  \/ LoginDone(p)
  \/ \E d \in Documents(env) \cup {NoDocument} : FcSearched(p, d)
  \/ \E stage \in FailureStages(env), m \in PageErrors : FcSearchFailed(p, stage, m)
  \/ \E r \in ResolveResults(env) \cup {Thrown, NoPage} : FcResolved(p, r)
  \/ \E r \in CompanyPageResults(env) \cup {<< >>} : FcPageVisited(p, r)
  \/ FcPaced(p)
  \/ \E n \in DirectCounts(env) \cup {0} : FfListed(p, n)
  \/ \E stage \in FailureStages(env) \cap 1..2, m \in PageErrors : FfListFailed(p, stage, m)
  \/ \E r \in ProfileResults(env) \cup {ProfileThrown} : FfAnalysed(p, r)
  \/ FfPaced(p)
  \/ ProcessClosed(p)

(* run p is suspended in an await: exactly then ProcessStep(p) is enabled *)
Pending(p) == procs[p].pc \notin {"idle", "done"}

(* a step of ProcessStep(p): no other step changes the locals of a *)
(* suspended run                                                   *)
Resumed(p) == Pending(p) /\ procs'[p] # procs[p]

(* Every awaited browser operation and timer comes back: the close a  *)
(* cancel handler awaits is eventually over, and so is the await of a *)
(* run, which is weak fairness of ProcessStep(p) written with its     *)
(* enabling condition Pending(p)                                      *)
LiveSpec ==
  /\ Init /\ [][Next]_vars
  /\ WF_vars(\E r \in requests : DELETEResume(r))
  /\ \A p \in Procs : []<>(~Pending(p)) \/ []<><<Resumed(p)>>_vars

(* ---------------- the store on its own ---------------- *)
(* The operations the crawls perform on the DatabaseManager, applied in  *)
(* any order and for any session, as interleaved crawls of several       *)
(* sessions apply them, together with createCompany called directly.     *)
(* StoreCaller is the slot whose counter names the identifiers drawn and *)
(* whose companyId holds the identifier the last upsert returned.        *)
StoreCaller == 1

StoreCompanies ==
  { [name |-> "Acme", linkedinUrl |-> "https://www.linkedin.com/company/acme"],
    [name |-> "Acme Inc", linkedinUrl |-> "https://www.linkedin.com/company/acme"],
    [name |-> "Beta", linkedinUrl |-> "https://www.linkedin.com/company/beta"] }

StorePeople == { AnnLee, CarlRoe }

(* the lookup-then-create of processCompanyConnections and analyzeFriendNetwork *)
upsertCompany(w, company) ==
  LET existingCompany == getCompanyByLinkedInUrl(w, company.linkedinUrl)
      created == createCompany(w, company)
  IN IF existingCompany # NullCompany
     THEN [w |-> w, id |-> existingCompany.id]
     ELSE [w |-> created.w, id |-> created.id]

CanDraw(n) == procs[StoreCaller].uuids + n <= MaxCalls

StoreUpsert(company) ==
  /\ CanDraw(1)
  /\ LET r == upsertCompany(World(StoreCaller), company)
     IN Become([r.w EXCEPT !.procs[StoreCaller].companyId = r.id])

StoreCreateCompany(company) ==
  /\ CanDraw(1)
  /\ LET r == createCompany(World(StoreCaller), company)
     IN Become([r.w EXCEPT !.procs[StoreCaller].companyId = r.id])

(* the Connection and CompanyConnection rows of one name, for the company *)
(* the last upsert returned                                               *)
StoreLink(sessionId, company, connection) ==
  /\ CanDraw(2)
  /\ \E c \in store.companies :
       /\ c.id = procs[StoreCaller].companyId
       /\ c.linkedinUrl = company.linkedinUrl
  /\ Become(createLinkedConnection(World(StoreCaller), sessionId,
              [name |-> company.name, linkedinUrl |-> company.linkedinUrl,
               connectionInfo |-> << >>],
              procs[StoreCaller].companyId, connection).w)

StoreEnvironment ==
  [site |-> "plain", maxStarts |-> 0, maxSessions |-> MaxStoreSessions,
   deletes |-> TRUE, started |-> 0]

StoreInit ==
  /\ store = [crawl_sessions |-> << >>, connections |-> {}, companies |-> {},
              company_connections |-> {}, nextSession |-> 1]
  /\ activeCrawlers = << >>
  /\ crawlers = [p \in Procs |-> NewCrawler([maxConnections |-> 0])]
  /\ procs = [p \in Procs |-> [IdleProc EXCEPT !.run = 1]]
  /\ requests = {}
  /\ obs = [p \in Procs |-> NewObs]
  /\ env = StoreEnvironment
  /\ file = OpenedFile

StoreNext ==
  \/ \E mode \in Modes : CreateSession(mode)
  \/ \E id \in 1..MaxStoreSessions : DeleteSession(id)
  \/ \E c \in StoreCompanies : StoreUpsert(c)
  \/ \E c \in StoreCompanies : StoreCreateCompany(c)
  \/ \E id \in 1..MaxStoreSessions, c \in StoreCompanies, n \in StorePeople : StoreLink(id, c, n)

StoreSpec == StoreInit /\ [][StoreNext]_vars

(* ---------------- the opening of the database file ---------------- *)
OpenInit ==
  /\ store = [crawl_sessions |-> << >>, connections |-> {}, companies |-> {},
              company_connections |-> {}, nextSession |-> 1]
  /\ activeCrawlers = << >>
  /\ crawlers = [p \in Procs |-> NewCrawler([maxConnections |-> 0])]
  /\ procs = [p \in Procs |-> IdleProc]
  /\ requests = {}
  /\ obs = [p \in Procs |-> NewObs]
  /\ env = StoreEnvironment
  /\ file \in StoredFiles

OpenNext == Open \/ Exit

OpenSpec == OpenInit /\ [][OpenNext]_vars

(* ---------------- the claims ---------------- *)
Sessions == store.crawl_sessions
Terminal == {"completed", "failed"}
Running(p) == procs[p].pc \notin {"idle", "done"}
Last(seq) == seq[Len(seq)]

(* C1: a status changes only along pending -> running, running ->       *)
(* completed, running -> failed, and a row whose status is completed or *)
(* failed keeps its status, progress and error while it exists          *)
C1_TerminalIsFinal ==
  [][\A id \in DOMAIN Sessions :
       id \in DOMAIN store'.crawl_sessions =>
         LET before == Sessions[id]
             after == store'.crawl_sessions[id]
         IN /\ before.status # after.status =>
                 <<before.status, after.status>> \in
                   {<<"pending", "running">>, <<"running", "completed">>,
                    <<"running", "failed">>}
            /\ before.status \in Terminal =>
                 /\ after.status = before.status
                 /\ after.progress = before.progress
                 /\ after.error = before.error]_vars

(* C2: a run whose crawler a cancel request has closed, and whose       *)
(* session that request has marked failed, never goes on to write       *)
(* status completed                                                     *)
C2_CancelledNeverCompletes ==
  [][\A p \in Procs :
       obs[p].cancelled /\ obs[p].outcome = "none" => obs'[p].outcome # "completed"]_vars

(* C3: at most one crawl process is executing for a session id *)
C3_OneProcessPerSession ==
  \A id \in SessionIds :
    Cardinality({p \in Procs : Running(p) /\ procs[p].sessionId = id}) <= 1

(* C4: the step in which an error reaches the catch of startCrawlProcess *)
(* leaves the session row with status failed, a non-empty error and the  *)
(* progress last written before the throw                                *)
C4_FailureKeepsProgress ==
  [][\A p \in Procs :
       (obs[p].outcome = "none" /\ obs'[p].outcome = "failed"
          /\ procs[p].sessionId \in DOMAIN Sessions) =>
         LET id == procs[p].sessionId
             after == store'.crawl_sessions[id]
         IN /\ id \in DOMAIN store'.crawl_sessions
            /\ after.status = "failed"
            /\ after.error \notin {Null, ""}
            /\ after.progress =
                 IF Len(obs'[p].reported) > Len(obs[p].reported)
                 THEN Last(obs'[p].reported) ELSE Sessions[id].progress]_vars

(* a run failed after its progress had reached 30 and the row still shows 30 *)
C4_Witness ==
  \E p \in Procs :
    /\ obs[p].outcome = "failed"
    /\ procs[p].sessionId \in DOMAIN Sessions
    /\ Sessions[procs[p].sessionId].status = "failed"
    /\ Sessions[procs[p].sessionId].progress = 30

(* C5: the progress values one run writes never decrease *)
C5_ProgressMonotone ==
  \A p \in Procs :
    \A n \in 1..(Len(obs[p].reported) - 1) : obs[p].reported[n] <= obs[p].reported[n + 1]

C7_BrowserReleased ==
  \A p \in Procs :
    procs[p].pc = "done" => crawlers[p].chromium # "open" /\ ~crawlers[p].browser

(* a run that was cancelled while chromium was launching went on to   *)
(* launch it, and has finished with the browser closed                *)
C7_Witness ==
  \E p \in Procs :
    /\ procs[p].pc = "done"
    /\ obs[p].cancelled
    /\ crawlers[p].chromium = "closed"

(* C8: a summary link whose resolution threw is written as a Connection *)
(* of its company once that company has been processed                  *)
C8_PlaceholderKept ==
  \A p \in Procs :
    \A u \in obs[p].unresolved :
      (procs[p].processedCount >= u.index /\ procs[p].sessionId \in DOMAIN Sessions) =>
        \E c \in store.connections :
          /\ c.crawlSessionId = procs[p].sessionId
          /\ c.name = u.link.name
          /\ c.profileUrl = u.link.profileUrl

(* C9: an error raised while a company of the first_connections loop is *)
(* processed does not put the run on the failure path                   *)
C9_CompanyErrorSkipped ==
  \A p \in Procs :
    (procs[p].mode = "first_connections" /\ obs[p].itemFailed) => obs[p].outcome # "failed"

(* C10: a friends_of_friends run in which the analysis of a connection  *)
(* failed is not put on the failure path by it, and it ends having      *)
(* visited every connection within the cap and written completed        *)
C10_FriendFailureSkipped ==
  \A p \in Procs :
    (procs[p].mode = "friends_of_friends" /\ obs[p].itemFailed) =>
      /\ obs[p].outcome # "failed"
      /\ procs[p].pc \in {"closing", "done"} =>
           /\ obs[p].outcome = "completed"
           /\ procs[p].i = SliceLength(World(NoProc), p)

(* the analysis of one connection failed and the run still finished *)
(* after visiting two                                                *)
C10_Witness ==
  \E p \in Procs :
    /\ procs[p].mode = "friends_of_friends"
    /\ obs[p].itemFailed
    /\ procs[p].pc = "done"
    /\ obs[p].outcome = "completed"
    /\ procs[p].i = 2

(* C11: no two Company rows have the same linkedinUrl *)
C11_CompanyUrlUnique ==
  \A a \in store.companies : \A b \in store.companies :
    a.linkedinUrl = b.linkedinUrl => a = b

(* two creations for one URL have left one row, the second one *)
C11_Witness ==
  /\ procs[StoreCaller].uuids = 2
  /\ store.companies =
       { [id |-> <<1, 1>>, name |-> "Acme Inc",
          linkedinUrl |-> "https://www.linkedin.com/company/acme"] }

(* C12: no operation on the store removes or renumbers a Company row,  *)
(* and the CompanyConnection rows pointing at it stay as long as their *)
(* session exists; an upsert of a URL already stored returns the       *)
(* identifier of the stored row                                        *)
C12_UpsertKeepsCompany ==
  [][\A c \in store.companies :
       /\ c \in store'.companies
       /\ \A cc \in store.company_connections :
            (cc.companyId = c.id /\ cc.crawlSessionId \in DOMAIN store'.crawl_sessions)
              => cc \in store'.company_connections
       /\ (procs'[StoreCaller].uuids > procs[StoreCaller].uuids
             /\ store'.connections = store.connections
             /\ \E d \in store'.companies :
                  d.id = procs'[StoreCaller].companyId /\ d.linkedinUrl = c.linkedinUrl)
            => procs'[StoreCaller].companyId = c.id]_vars

(* C13: a step that deletes a session removes exactly the Connection and *)
(* CompanyConnection rows of that session id and no Company row          *)
C13_DeleteCascades ==
  [][\A id \in DOMAIN store.crawl_sessions :
       id \notin DOMAIN store'.crawl_sessions =>
         /\ store'.connections = {c \in store.connections : c.crawlSessionId # id}
         /\ store'.company_connections =
              {cc \in store.company_connections : cc.crawlSessionId # id}
         /\ store'.companies = store.companies]_vars

(* session 1 was deleted with its rows while the rows of session 2 and *)
(* the company stayed                                                  *)
C13_Witness ==
  /\ procs[StoreCaller].uuids = 5
  /\ DOMAIN store.crawl_sessions = {2}
  /\ Cardinality(store.companies) = 1
  /\ Cardinality(store.connections) = 1
  /\ Cardinality(store.company_connections) = 1
  /\ \A c \in store.connections : c.crawlSessionId = 2
  /\ \A c \in store.companies : c.id = <<1, 0>>

LoginFailureMessages == {"Login failed: " \o m : m \in LoginErrors \cup ClosedErrors}

(* C14: a run whose login failed is on the failure path with the error *)
(* `Login failed: ...` on its session row, has reported no progress of *)
(* a crawl function, never navigates again and has written no Company, *)
(* Connection or CompanyConnection row                                 *)
C14_LoginFailureFails ==
  [][\A p \in Procs :
       obs'[p].loginFailed =>
         /\ procs'[p].pc \in {"closing", "done"}
         /\ obs'[p].outcome = "failed"
         /\ obs'[p].reported = <<0>>
         /\ procs'[p].uuids = 0
         /\ \A r \in store'.companies \cup store'.connections \cup store'.company_connections :
              r.id[1] # procs'[p].run
         /\ (~obs[p].loginFailed /\ procs'[p].sessionId \in DOMAIN store'.crawl_sessions) =>
              /\ store'.crawl_sessions[procs'[p].sessionId].status = "failed"
              /\ store'.crawl_sessions[procs'[p].sessionId].error \in LoginFailureMessages]_vars

(* a run ended after the site kept it on the login URL *)
C14_Witness ==
  \E p \in Procs :
    /\ obs[p].loginFailed
    /\ procs[p].pc = "done"
    /\ procs[p].sessionId \in DOMAIN Sessions
    /\ Sessions[procs[p].sessionId].status = "failed"
    /\ Sessions[procs[p].sessionId].error =
         "Login failed: Login failed. Please check your credentials."
    /\ store.companies = {} /\ store.connections = {}

(* C15: every Connection row, written by either crawl mode and from every *)
(* connection text a card can show, has a name that is not empty.         *)
C15_NamesNonEmpty ==
  \A c \in store.connections : c.name # ""

(* a card without any connection text has been persisted under the last default *)
C15_Witness ==
  \E c \in store.connections : c.name = "Network Connection" /\ c.headline = ""

(* the summary links of the cards the site can serve *)
SummaryLinks ==
  UNION { {card.connectionNames[i] : i \in {j \in DOMAIN card.connectionNames :
                                                card.connectionNames[j].isConnectionSummary}} :
          card \in Cards \cup {TextCard(info) : info \in InfoTexts} }

PersistedCard(p) == procs'[p].companies[procs'[p].processedCount]
WrittenConnections == store'.connections \ store.connections

(* run p has persisted a card that came to persistence without names: *)
(* its text gave none, and no summary link and no company page did    *)
PersistedWithoutNames(p) ==
  /\ procs'[p].mode = "first_connections"
  /\ procs'[p].processedCount = procs[p].processedCount + 1
  /\ \A i \in DOMAIN PersistedCard(p).connectionNames :
       PersistedCard(p).connectionNames[i].isConnectionSummary
  /\ \E c \in WrittenConnections : c.profileUrl = ""

(* "<N> connections/people ... work/hired here" *)
CountPhrases(info) ==
  {i \in 1..Len(info) :
     /\ IsNumber(info[i])
     /\ WordsAt(info, i + 1, <<{"connection", "connections", "people"}>>)
     /\ \E j \in (i + 2)..Len(info) :
          WordsAt(info, j, <<{"work", "works", "hired"}, {"here"}>>)}

NameAtStart(info) ==
  IF Len(info) >= 2 /\ IsCapitalized(info[1]) /\ IsCapitalized(info[2])
  THEN info[1] \o " " \o info[2]
  ELSE "Network Connection"

CountedName(n) ==
  IF n = 1 THEN "1st Degree Connection" ELSE ToString(n) \o " Connections"

StatedName(info) ==
  IF CountPhrases(info) # {}
  THEN CountedName(parseInt(info[CHOOSE i \in CountPhrases(info) :
                                   \A j \in CountPhrases(info) : i <= j]))
  ELSE NameAtStart(info)

(* C17 as stated: a card persisted without names yields exactly one     *)
(* Connection, named by the count of a "<N> connections/people ...      *)
(* work/hired here" text, and otherwise by the name at the start of the *)
(* text or "Network Connection".                                        *)
C17_FallbackAsStated ==
  [][\A p \in Procs : PersistedWithoutNames(p) =>
       /\ Cardinality(WrittenConnections) = 1
       /\ \A c \in WrittenConnections :
            c.name = StatedName(PersistedCard(p).connectionInfo)]_vars

(* the text mentions, in lower case, connections or people *)
Mentions(info) ==
  \E i \in 1..Len(info) : info[i] \in {"connection", "connections", "people"}

(* the places of a number followed by connection(s) or people, in any case *)
Counts(info) ==
  {i \in 1..Len(info) :
     IsNumber(info[i]) /\ WordsAt(info, i + 1, <<{"connection", "connections", "people"}>>)}

(* the text before " work here" or " were hired here", a leading number dropped *)
Lead(info) ==
  LET ends == {i \in 2..Len(info) :
                 \/ WordsAt(info, i, <<{"work"}, {"here"}>>)
                 \/ WordsAt(info, i, <<{"were"}, {"hired"}, {"here"}>>)}
      upto == IF ends = {} THEN Len(info) ELSE (CHOOSE i \in ends : \A j \in ends : i <= j) - 1
      from == IF upto >= 2 /\ IsNumber(info[1]) THEN 2 ELSE 1
  IN SubSeq(info, from, upto)

AmendedName(info) ==
  IF ~Mentions(info) THEN NameAtStart(info)
  ELSE IF Counts(info) # {}
       THEN CountedName(parseInt(info[CHOOSE i \in Counts(info) : \A j \in Counts(info) : i <= j]))
       ELSE IF \E i \in 1..Len(Lead(info)) : WordsAt(Lead(info), i, <<{"connection", "connections"}>>)
            THEN "Your Network Connection"
            ELSE IF \E i \in 1..Len(Lead(info)) : WordsAt(Lead(info), i, <<{"people"}>>)
                 THEN "Network Contact"
                 ELSE Join(Lead(info))

(* C17, amended: a card persisted without names yields exactly one        *)
(* Connection.  When its text mentions "connection" or "people" in lower  *)
(* case, the name is the counted form of the first number followed by     *)
(* connection(s) or people, and without such a number "Your Network       *)
(* Connection", "Network Contact" or the text before " work here" /       *)
(* " were hired here"; when it mentions neither, the name at the start of *)
(* the text or "Network Connection".                                      *)
C17_FallbackNamedByText ==
  [][\A p \in Procs : PersistedWithoutNames(p) =>
       /\ Cardinality(WrittenConnections) = 1
       /\ \A c \in WrittenConnections :
            c.name = AmendedName(PersistedCard(p).connectionInfo)]_vars

(* a card with a text about people but no count has been persisted *)
C17_Witness ==
  \E c \in store.connections :
    c.headline = "people you may know" /\ c.name = "Network Contact" /\ c.profileUrl = ""

WrittenLinks == store'.company_connections \ store.company_connections

(* the rows written in a step come in pairs: each Connection has exactly *)
(* one CompanyConnection, which carries its id, the id of the Company    *)
(* row of its company URL and its session id, and each CompanyConnection *)
(* belongs to such a Connection; a card whose names were read from its   *)
(* text gets one Connection for each of them                             *)
WrittenInPairs ==
  /\ \A c \in WrittenConnections :
       /\ Cardinality({cc \in store'.company_connections : cc.connectionId = c.id}) = 1
       /\ \A cc \in store'.company_connections :
            cc.connectionId = c.id =>
              /\ cc \in WrittenLinks
              /\ cc.crawlSessionId = c.crawlSessionId
              /\ \E co \in store'.companies :
                   co.id = cc.companyId /\ co.linkedinUrl = c.companyUrl
  /\ \A cc \in WrittenLinks : \E c \in WrittenConnections : cc.connectionId = c.id
  /\ \A p \in Procs :
       (/\ procs'[p].mode = "first_connections"
        /\ procs'[p].processedCount = procs[p].processedCount + 1
        /\ \E i \in DOMAIN PersistedCard(p).connectionNames :
             ~PersistedCard(p).connectionNames[i].isConnectionSummary)
       => /\ Cardinality(WrittenConnections) = Len(PersistedCard(p).connectionNames)
          /\ \A i \in DOMAIN PersistedCard(p).connectionNames :
               \E c \in WrittenConnections :
                 /\ c.name = PersistedCard(p).connectionNames[i].name
                 /\ c.crawlSessionId = procs'[p].sessionId

WrittenName(cc) == (CHOOSE c \in WrittenConnections : c.id = cc.connectionId).name

Matching(p) == {k \in 1..NumSelectors : procs[p].document[k] # << >>}

(* C19: the cascade uses the first selector of the list that matches at *)
(* least one element and takes exactly its elements as the cards, also  *)
(* when later selectors match; when no selector matches, the company    *)
(* list is empty and the crawl goes on to its normal end.               *)
C19_FirstSelectorWins ==
  \A p \in Procs :
    procs[p].document # NoDocument =>
      IF Matching(p) = {}
      THEN /\ procs[p].usedSelector = 0
           /\ procs[p].companies = << >>
           /\ obs[p].outcome = "completed"
      ELSE /\ procs[p].usedSelector \in Matching(p)
           /\ \A k \in Matching(p) : procs[p].usedSelector <= k
           /\ procs[p].companies =
                SelectSeq(procs[p].document[procs[p].usedSelector],
                          LAMBDA card : card.name # "" /\ card.linkedinUrl # "")

(* the seventh selector was used although the ninth matched other elements *)
C19_Witness ==
  \E p \in Procs :
    /\ procs[p].document # NoDocument
    /\ Matching(p) = {7, 9}
    /\ procs[p].document[9] # procs[p].document[7]
    /\ procs[p].usedSelector = 7
    /\ procs[p].companies = <<NamedCard>>

(* C20: a friends_of_friends crawl has visited a prefix of the extracted *)
(* connections, of at most maxConnections of them and of at most 50 when *)
(* the setting is absent; the rows of the run are of visited connections *)
C20_VisitsWithinCap ==
  \A p \in Procs :
    procs[p].mode = "friends_of_friends" =>
      /\ procs[p].i <= procs[p].firstDegreeConnections
      /\ procs[p].i <= (IF crawlers[p].settings.maxConnections = 0
                        THEN DefaultMaxConnections
                        ELSE crawlers[p].settings.maxConnections)
      /\ \A c \in store.connections :
           c.id[1] = procs[p].run => \E k \in 1..procs[p].i : c.name = PersonName(k)

(* with no setting and more than 50 connections extracted, the crawl has *)
(* ended after the 50th                                                  *)
C20_Witness ==
  \E p \in Procs :
    /\ procs[p].mode = "friends_of_friends"
    /\ crawlers[p].settings.maxConnections = 0
    /\ procs[p].firstDegreeConnections > DefaultMaxConnections
    /\ procs[p].i = DefaultMaxConnections
    /\ obs[p].outcome = "completed"

(* C21: a first_connections crawl over n >= 1 companies has waited the  *)
(* rateLimit once after each processed company that another one         *)
(* follows, and not after the last: n - 1 times when it has processed   *)
(* them all.                                                            *)
C21_PacedBetweenCompanies ==
  \A p \in Procs :
    (procs[p].mode = "first_connections" /\ Len(procs[p].companies) >= 1) =>
      obs[p].paces = Min(procs[p].processedCount, Len(procs[p].companies) - 1)

(* a crawl over two companies has ended after one wait *)
C21_Witness ==
  \E p \in Procs :
    /\ procs[p].mode = "first_connections"
    /\ Len(procs[p].companies) = 2
    /\ procs[p].processedCount = 2
    /\ obs[p].paces = 1
    /\ obs[p].outcome = "completed"

(* C22: opening the file succeeds on a new empty file and on one of an  *)
(* earlier version, keeps every table, column and index there was, and  *)
(* changes nothing when the file was opened before.                     *)
C22_OpenAdditiveIdempotent ==
  [][file'.opens = file.opens + 1 =>
       /\ file'.instance /\ file'.thrown = Null
       /\ \A t \in DOMAIN file.tables :
            t \in DOMAIN file'.tables /\ file.tables[t] \subseteq file'.tables[t]
       /\ file.indexes \subseteq file'.indexes
       /\ file.opens >= 1 =>
            file'.tables = file.tables /\ file'.indexes = file.indexes]_vars

(* C23: the people a friends_of_friends crawl persists have             *)
(* connectionDegree 2 and a path through the contact they were reached  *)
(* by: "You -> <contact> -> <name>".                                    *)
C23_SecondDegreePaths ==
  \A c \in store.connections :
    (c.crawlSessionId \in DOMAIN store.crawl_sessions
       /\ store.crawl_sessions[c.crawlSessionId].mode = "friends_of_friends") =>
      /\ c.connectionDegree = 2
      /\ \A cc \in store.company_connections :
           cc.connectionId = c.id =>
             \E k \in 1..LargeDirect :
               cc.connectionPath = "You -> " \o PersonName(k) \o " -> " \o c.name

(* C24: a session whose status is running comes to have status completed *)
(* or failed, or is deleted, when every awaited operation comes back     *)
C24_StartedTerminates ==
  \A id \in SessionIds :
    (id \in DOMAIN Sessions /\ Sessions[id].status = "running")
      ~> (id \notin DOMAIN Sessions \/ Sessions[id].status \in Terminal)

(* a run whose search failed has written failed and closed its browser *)
C24_Witness ==
  \E p \in Procs :
    /\ procs[p].pc = "done"
    /\ obs[p].outcome = "failed"
    /\ ~obs[p].cancelled
    /\ Len(obs[p].reported) >= 2
    /\ SessionOf(World(NoProc), p) \in DOMAIN Sessions
    /\ Sessions[SessionOf(World(NoProc), p)].status = "failed"

(* the first text of the link, among those of the selectors in order, *)
(* that is a valid name                                               *)
ValidTexts(link) == {k \in 1..NumNameSelectors : IsValidName(link.texts[k])}
FirstValidText(link) ==
  link.texts[CHOOSE k \in ValidTexts(link) : \A j \in ValidTexts(link) : k <= j]

(* C25: of the person-search page a run has read last, every card with a *)
(* link for which some selector gives a valid name has given the person  *)
(* of its first such link, named by the first valid text of that link,   *)
(* and no card has given more than one person.                           *)
C25_FirstValidNameAccepted ==
  \A p \in Procs :
    /\ Len(obs[p].found) <= Len(obs[p].searched)
    /\ \A c \in 1..Len(obs[p].searched) :
         LET card == obs[p].searched[c]
             good == {l \in 1..Len(card) : ValidTexts(card[l]) # {}}
         IN good # {} =>
              LET l == CHOOSE l \in good : \A m \in good : l <= m
              IN \E i \in 1..Len(obs[p].found) :
                   /\ obs[p].found[i].profileUrl = card[l].href
                   /\ obs[p].found[i].name = Join(FirstValidText(card[l]))

(* the runs a step starts for a session *)
StartedFor(id) ==
  {p \in Procs : procs[p].pc = "idle" /\ procs'[p].pc # "idle" /\ procs'[p].sessionId = id}

(* C26: no step starts a run for, or registers a crawler under, a session *)
(* whose status is running; a step starts at most one run for a session,  *)
(* and then sets its status to running and registers the crawler of that  *)
(* run; and a status that has left pending never is pending again, so     *)
(* that of the start requests for one pending session one starts a run.   *)
C26_RunningStartRefused ==
  [][\A id \in DOMAIN Sessions :
       /\ Sessions[id].status = "running" =>
            /\ StartedFor(id) = {}
            /\ id \in DOMAIN activeCrawlers' =>
                 id \in DOMAIN activeCrawlers /\ activeCrawlers'[id] = activeCrawlers[id]
       /\ Cardinality(StartedFor(id)) <= 1
       /\ StartedFor(id) # {} =>
            /\ id \in DOMAIN store'.crawl_sessions
            /\ store'.crawl_sessions[id].status = "running"
            /\ id \in DOMAIN activeCrawlers'
            /\ activeCrawlers'[id] \in StartedFor(id)
       /\ (Sessions[id].status # "pending" /\ id \in DOMAIN store'.crawl_sessions) =>
            store'.crawl_sessions[id].status # "pending"]_vars

(* a session is running, and a free slot and a start left over show that *)
(* only its status stands in the way of a second run                     *)
C26_Witness ==
  \E id \in DOMAIN Sessions :
    /\ Sessions[id].status = "running"
    /\ env.started < env.maxStarts
    /\ \E p \in Procs : procs[p].pc = "idle"
    /\ \E p \in Procs : Running(p) /\ procs[p].sessionId = id
(* C27: a step of a run whose session a cancel request has been handled *)
(* for writes no Company, Connection or CompanyConnection row and reports  *)
(* no progress                                                             *)
C27_CancelledWritesNothing ==
  [][\A p \in Procs :
       (obs[p].cancelled /\ Running(p) /\ procs'[p] # procs[p] /\ procs'[p].pc # "idle") =>
         /\ store'.companies = store.companies
         /\ store'.connections = store.connections
         /\ store'.company_connections = store.company_connections
         /\ obs'[p].reported = obs[p].reported]_vars
(* C28: an entry of activeCrawlers maps a session id to the crawler of a *)
(* run that is executing for that session, and every executing run that   *)
(* has not reached its cleanup, and that no cancel request has been        *)
(* handled for, is the one registered under its session id, so that a      *)
(* cancel request reaches it                                               *)
C28_RegistryTracksRuns ==
  /\ \A id \in DOMAIN activeCrawlers :
       Running(activeCrawlers[id]) /\ procs[activeCrawlers[id]].sessionId = id
  /\ \A p \in Procs :
       (Running(p) /\ procs[p].pc # "closing" /\ ~obs[p].cancelled) =>
         /\ procs[p].sessionId \in DOMAIN activeCrawlers
         /\ activeCrawlers[procs[p].sessionId] = p
(* the session ids handed out whose row has been deleted *)
DeletedIds == (1..(store.nextSession - 1)) \ DOMAIN Sessions

(* C29: every Connection and CompanyConnection row carries the id of a   *)
(* session row that exists, so none carries the id of a deleted session; *)
(* no step brings the row of a deleted session back; and a run that is   *)
(* executing for a deleted session comes to its end with its chromium    *)
(* process gone and its crawler's browser field cleared                  *)
C29_DeletedSessionStaysGone ==
  /\ [](\A c \in store.connections \cup store.company_connections :
          c.crawlSessionId \in DOMAIN Sessions)
  /\ [][\A id \in DeletedIds : id \notin DOMAIN store'.crawl_sessions]_vars
  /\ \A p \in Procs :
       (Running(p) /\ procs[p].sessionId \in DeletedIds)
         ~> (procs[p].pc = "done" /\ crawlers[p].chromium # "open" /\ ~crawlers[p].browser)

(* the only run there was has ended on an insert that the deleted session *)
(* row made fail, and its browser is closed                               *)
C29_Witness ==
  \E p \in Procs :
    /\ env.started = 1
    /\ procs[p].pc = "done"
    /\ procs[p].sessionId \in DeletedIds
    /\ procs[p].mode = "first_connections"
    /\ obs[p].itemFailed
    /\ obs[p].outcome = "failed"
    /\ crawlers[p].chromium = "closed"
(* C30: every Company row has a non-empty linkedinUrl, and two Connection *)
(* rows that name different employers are linked to different Company ids *)
C30_EmployersKeptApart ==
  /\ \A c \in store.companies : c.linkedinUrl # ""
  /\ \A a \in store.company_connections : \A b \in store.company_connections :
       \A ca \in store.connections : \A cb \in store.connections :
         (/\ ca.id = a.connectionId /\ cb.id = b.connectionId
          /\ ca.company # cb.company) => a.companyId # b.companyId
====
